---- MODULE Spec2Model ----
(***************************************************************************)
(* A model of substrate-stellar-sdk: the envelope's signature list, the    *)
(* canonical key codec, the operation constructors, the conversion to a    *)
(* ClaimableBalanceId and the Horizon client's request and fetch functions.*)
(*                                                                         *)
(* Each part has its own specification over its own variables; the other   *)
(* variables rest at their idle values.                                    *)
(*                                                                         *)
(* Results are records: [kind |-> "Ok", ...] or [kind |-> "Err", err |-> e]*)
(* where e is a record naming the error variant and carrying its fields.   *)
(***************************************************************************)
EXTENDS Integers, Sequences, FiniteSets, TLC

VARIABLES
    envelope,   \* TransactionEnvelope: [kind, signatures]
    envRet,     \* the result of the last add_signature
    keyIn,      \* the arguments of the key decoding under way
    keyRet,     \* the result of decode_stellar_key
    opCall,     \* the arguments of the operation constructor called
    opRet,      \* the result of the operation constructor
    cbIn,       \* the value given to into_claimable_balance_id
    cbRet,      \* the result of into_claimable_balance_id
    hz          \* the Horizon call under way (see HzIdle)

vars == <<envelope, envRet, keyIn, keyRet, opCall, opRet, cbIn, cbRet, hz>>

None == [some |-> FALSE]
Some(x) == [some |-> TRUE, val |-> x]

Ok(x) == [kind |-> "Ok", val |-> x]
Err(e) == [kind |-> "Err", err |-> e]

NoRet == [kind |-> "none"]

Range(f) == {f[i] : i \in DOMAIN f}

\* n copies of the byte b
Rep(b, n) == [i \in 1..n |-> b]

(***************************************************************************)
(* error.rs: the variants of StellarSdkError the model uses                *)
(***************************************************************************)
InvalidBase32Character(p) == [variant |-> "InvalidBase32Character", at_position |-> p]
InvalidStellarKeyEncoding == [variant |-> "InvalidStellarKeyEncoding"]
InvalidStellarKeyEncodingLength == [variant |-> "InvalidStellarKeyEncodingLength"]
InvalidStellarKeyEncodingVersion(e, f) ==
    [variant |-> "InvalidStellarKeyEncodingVersion", expected_version |-> e, found_version |-> f]
InvalidStellarKeyChecksum(e, f) ==
    [variant |-> "InvalidStellarKeyChecksum", expected |-> e, found |-> f]
TooManySignatures == [variant |-> "TooManySignatures"]
ExceedsMaximumLength(req, allowed) ==
    [variant |-> "ExceedsMaximumLength", requested_length |-> req, allowed_length |-> allowed]
InvalidHexEncoding == [variant |-> "InvalidHexEncoding"]
InvalidBinaryLength(found, expected) ==
    [variant |-> "InvalidBinaryLength", found_length |-> found, expected_length |-> expected]
InvalidBalanceId == [variant |-> "InvalidBalanceId"]

(***************************************************************************)
(* Idle values of the parts                                                *)
(***************************************************************************)
EnvIdle == envelope = [kind |-> "none", signatures |-> <<>>] /\ envRet = NoRet
KeyIdle == keyIn = NoRet /\ keyRet = NoRet
NoCall == [fn |-> "none"]
OpIdle == opCall = NoCall /\ opRet = NoRet
CbIdle == cbIn = NoRet /\ cbRet = NoRet
HzIdleState ==
    [pc |-> "idle", fn |-> "none", timeout |-> 0, now |-> 0, deadline |-> 0,
     code |-> 0, body |-> <<>>, received |-> <<>>, failure |-> "none",
     json |-> NoRet, ret |-> NoRet, retAt |-> 0]
HzIdle == hz = HzIdleState

(***************************************************************************)
(* Transaction envelope: the signature list and add_signature              *)
(***************************************************************************)
\* the cap on an envelope's signatures
MaxSignatures == 20

\* (hint, signature bytes) pairs of two signers
DecoratedSignatures == {[hint |-> <<1, 2, 3, 4>>, signature |-> "sigA"],
                        [hint |-> <<5, 6, 7, 8>>, signature |-> "sigB"]}

\* the mutant: the cap is tested after the append is allowed once more
add_signature_off_by_one(env, sig) ==
    IF Len(env.signatures) > MaxSignatures
    THEN [env |-> env, ret |-> Err(TooManySignatures)]
    ELSE [env |-> [env EXCEPT !.signatures = Append(@, sig)], ret |-> Ok("unit")]

\* add_signature: the envelope after the call and the call's result
add_signature(env, sig) ==
    IF Len(env.signatures) >= MaxSignatures
    THEN [env |-> env, ret |-> Err(TooManySignatures)]
    ELSE [env |-> [env EXCEPT !.signatures = Append(@, sig)], ret |-> Ok("unit")]

EnvInit ==
    /\ envelope = [kind |-> "EnvelopeTypeTx", signatures |-> <<>>]
    /\ envRet = NoRet

AddSignature ==
    \E sig \in DecoratedSignatures :
        LET r == add_signature(envelope, sig) IN
        /\ envelope' = r.env
        /\ envRet' = r.ret
        /\ UNCHANGED <<keyIn, keyRet, opCall, opRet, cbIn, cbRet, hz>>

InitEnvelope == EnvInit /\ KeyIdle /\ OpIdle /\ CbIdle /\ HzIdle
NextEnvelope == AddSignature
SpecEnvelope == InitEnvelope /\ [][NextEnvelope]_vars

\* C1: an envelope never holds more than 20 signatures: every add_signature on
\* an envelope holding fewer than 20 succeeds and appends exactly one signature
\* (so the 20th add succeeds), and every add_signature on an envelope holding
\* 20 fails with TooManySignatures and leaves the list as it was.
C1_SignatureCap ==
    [][ /\ Len(envelope.signatures) <= 20
        /\ Len(envelope'.signatures) <= 20
        /\ Len(envelope.signatures) < 20 =>
            /\ envRet' = Ok("unit")
            /\ \E sig \in DecoratedSignatures :
                  envelope'.signatures = Append(envelope.signatures, sig)
        /\ Len(envelope.signatures) = 20 =>
            /\ envRet' = Err(TooManySignatures)
            /\ envelope' = envelope ]_vars

\* the 20th add has succeeded and a 21st has failed
C1_Witness ==
    /\ Len(envelope.signatures) = 20
    /\ envRet = Err(TooManySignatures)

(***************************************************************************)
(* Key codec: base-32 without padding, CRC16-XMODEM, canonical decoding    *)
(***************************************************************************)
\* the base-32 alphabet of RFC 4648; the value of a character is its place - 1
Base32Alphabet ==
    << "A", "B", "C", "D", "E", "F", "G", "H", "I", "J", "K", "L", "M", "N", "O", "P",
       "Q", "R", "S", "T", "U", "V", "W", "X", "Y", "Z", "2", "3", "4", "5", "6", "7" >>

\* bitwise exclusive or of two naturals
RECURSIVE Xor(_, _)
Xor(a, b) ==
    IF a = 0 THEN b
    ELSE IF b = 0 THEN a
    ELSE (((a % 2) + (b % 2)) % 2) + 2 * Xor(a \div 2, b \div 2)

\* one of the eight shifts of the CRC register, 16 bits wide
RECURSIVE CrcShift(_, _)
CrcShift(crc, n) ==
    IF n = 0 THEN crc
    ELSE CrcShift(IF crc \div 32768 = 1
                  THEN Xor((crc * 2) % 65536, 4129)
                  ELSE (crc * 2) % 65536, n - 1)

\* CRC16-XMODEM (polynomial 0x1021, initial value 0) of a byte sequence
RECURSIVE Crc16(_, _)
Crc16(bytes, crc) ==
    IF bytes = <<>> THEN crc
    ELSE Crc16(Tail(bytes), CrcShift(Xor(crc, Head(bytes) * 256), 8))

crc(bytes) == Crc16(bytes, 0)

\* bit k (from 1, most significant first) of a byte sequence; 0 past its end
BitOfBytes(bytes, k) ==
    IF k > 8 * Len(bytes) THEN 0
    ELSE (bytes[((k - 1) \div 8) + 1] \div (2 ^ (7 - ((k - 1) % 8)))) % 2

\* bit k of a sequence of 5-bit values
BitOfQuintets(vals, k) ==
    (vals[((k - 1) \div 5) + 1] \div (2 ^ (4 - ((k - 1) % 5)))) % 2

\* base-32 encoding without padding: the last character's spare bits are 0
encode(bytes) ==
    LET n == (8 * Len(bytes) + 4) \div 5 IN
    [j \in 1..n |->
        Base32Alphabet[1 + 16 * BitOfBytes(bytes, 5 * j - 4) + 8 * BitOfBytes(bytes, 5 * j - 3)
                         + 4 * BitOfBytes(bytes, 5 * j - 2) + 2 * BitOfBytes(bytes, 5 * j - 1)
                         + BitOfBytes(bytes, 5 * j)]]

ascii_to_value_5bit(c) ==
    IF c \in Range(Base32Alphabet)
    THEN Some((CHOOSE i \in DOMAIN Base32Alphabet : Base32Alphabet[i] = c) - 1)
    ELSE None

\* base-32 decoding: fails at the first character outside the alphabet; the
\* whole bytes of the bit string are the result and the spare bits are dropped
decode(str) ==
    LET bad == {p \in DOMAIN str : ~ascii_to_value_5bit(str[p]).some} IN
    IF bad # {}
    THEN Err(InvalidBase32Character((CHOOSE p \in bad : \A q \in bad : p <= q) - 1))
    ELSE LET vals == [p \in DOMAIN str |-> ascii_to_value_5bit(str[p]).val]
             n == (5 * Len(str)) \div 8
         IN Ok([k \in 1..n |->
                  128 * BitOfQuintets(vals, 8 * k - 7) + 64 * BitOfQuintets(vals, 8 * k - 6)
                + 32 * BitOfQuintets(vals, 8 * k - 5) + 16 * BitOfQuintets(vals, 8 * k - 4)
                + 8 * BitOfQuintets(vals, 8 * k - 3) + 4 * BitOfQuintets(vals, 8 * k - 2)
                + 2 * BitOfQuintets(vals, 8 * k - 1) + BitOfQuintets(vals, 8 * k)])

\* encode(version, payload): version byte, payload, big-endian checksum
encode_stellar_key(version_byte, payload) ==
    LET body == <<version_byte>> \o payload
        sum == crc(body)
    IN encode(body \o <<sum \div 256, sum % 256>>)

\* the mutant: a decoding that accepts what decodes, canonical or not
key_is_canonical_unchecked(encoded_key, decoded_array) == TRUE

\* whether a key string is the encoding of the bytes it decodes to
key_is_canonical(encoded_key, decoded_array) == encoded_key = encode(decoded_array)

\* decode(string, expected version) for a key of byte_length payload bytes
decode_stellar_key(encoded_key, version_byte, byte_length) ==
    LET d == decode(encoded_key) IN
    IF d.kind = "Err" THEN d
    ELSE LET decoded_array == d.val
             array_length == Len(decoded_array)
         IN
         IF ~key_is_canonical(encoded_key, decoded_array) THEN Err(InvalidStellarKeyEncoding)
         ELSE IF array_length # 3 + byte_length THEN Err(InvalidStellarKeyEncodingLength)
         ELSE LET crc_value == 256 * decoded_array[array_length - 1] + decoded_array[array_length]
                  expected_crc_value == crc(SubSeq(decoded_array, 1, array_length - 2))
              IN
              IF crc_value # expected_crc_value
              THEN Err(InvalidStellarKeyChecksum(expected_crc_value, crc_value))
              ELSE IF decoded_array[1] # version_byte
              THEN Err(InvalidStellarKeyEncodingVersion(version_byte, decoded_array[1]))
              ELSE Ok([version |-> decoded_array[1],
                       payload |-> SubSeq(decoded_array, 2, array_length - 2)])

\* the version bytes of an account id ("G") and of a muxed account ("M")
VersionBytes == {48, 96}

\* the payload lengths of the keys decoded (1: the encoding has spare bits,
\* as a muxed account's has; 2: it has none, as an account id's)
MaxPayloadLen == 2

PayloadBytes == {0, 90, 255}

Payloads == UNION {[1..n -> PayloadBytes] : n \in 1..MaxPayloadLen}

\* characters that replace one of a key string's: three of the alphabet, the
\* alphabet's neighbours of a character, and two outside the alphabet
ReplacementChars == {"A", "B", "7", "Q", "1", "="}

\* the strings given to the decoder: the encodings of keys, each also with one
\* character replaced, with its last character dropped, and with one appended
KeyStrings ==
    LET good == {encode_stellar_key(v, p) : v \in VersionBytes, p \in Payloads} IN
    good
    \cup {[s EXCEPT ![i] = c] : s \in good, i \in {1, 2, 5}, c \in ReplacementChars}
    \cup {[s EXCEPT ![Len(s)] = c] : s \in good, c \in Range(Base32Alphabet)}
    \cup {SubSeq(s, 1, Len(s) - 1) : s \in good}
    \cup {Append(s, c) : s \in good, c \in {"A", "C"}}

KeyInit ==
    /\ keyIn \in [encoded_key : KeyStrings, version_byte : VersionBytes,
                  byte_length : 1..MaxPayloadLen]
    /\ keyRet = NoRet

DecodeKey ==
    /\ keyRet = NoRet
    /\ keyRet' = decode_stellar_key(keyIn.encoded_key, keyIn.version_byte, keyIn.byte_length)
    /\ UNCHANGED <<envelope, envRet, keyIn, opCall, opRet, cbIn, cbRet, hz>>

InitKey == KeyInit /\ EnvIdle /\ OpIdle /\ CbIdle /\ HzIdle
NextKey == DecodeKey
SpecKey == InitKey /\ [][NextKey]_vars

\* C2: a key string that decodes re-encodes to itself, and a string that
\* decodes at the base-32 level but is not the encoding of its decoded bytes
\* is rejected with InvalidStellarKeyEncoding.
C2_CanonicalOnly ==
    keyRet # NoRet =>
        /\ keyRet.kind = "Ok" =>
              encode_stellar_key(keyRet.val.version, keyRet.val.payload) = keyIn.encoded_key
        /\ LET d == decode(keyIn.encoded_key) IN
           (d.kind = "Ok" /\ encode(d.val) # keyIn.encoded_key) =>
              keyRet = Err(InvalidStellarKeyEncoding)

\* a string with a spare bit set, which decodes to the bytes of a valid key,
\* has been rejected as not canonical
C2_Witness ==
    /\ keyRet = Err(InvalidStellarKeyEncoding)
    /\ LET d == decode(keyIn.encoded_key) IN
       /\ d.kind = "Ok"
       /\ Len(d.val) = 3 + keyIn.byte_length
       /\ Len(keyIn.encoded_key) = Len(encode(d.val))
       /\ decode_stellar_key(encode(d.val), keyIn.version_byte, keyIn.byte_length).kind = "Ok"

(***************************************************************************)
(* Operation constructors                                                  *)
(***************************************************************************)
\* the length limits of String64 (data name), DataValue and String32 (home domain)
String64Limit == 64
DataValueLimit == 64
String32Limit == 32

\* LimitedString::new and LimitedVarOpaque::new: the bytes, if within the limit
LimitedString_new(vec, limit) ==
    IF Len(vec) > limit THEN Err(ExceedsMaximumLength(Len(vec), limit)) ELSE Ok(vec)

as_data_value(data_value) == LimitedString_new(data_value, DataValueLimit)

\* the version byte of an account id's encoding
ED25519_PUBLIC_KEY_VERSION_BYTE == 48

\* into_muxed_account_id: a muxed account is itself; an encoding is decoded
into_muxed_account_id(x) ==
    IF x.repr = "MuxedAccount" THEN Ok(x.muxed)
    ELSE LET d == decode_stellar_key(x.encoding, ED25519_PUBLIC_KEY_VERSION_BYTE, MaxPayloadLen) IN
         IF d.kind = "Err" THEN d
         ELSE Ok([type |-> "KeyTypeEd25519", ed25519 |-> d.val.payload])

\* into_account_id: an account id is itself; an encoding is decoded
into_account_id(x) ==
    IF x.repr = "AccountId" THEN Ok(x.account)
    ELSE LET d == decode_stellar_key(x.encoding, ED25519_PUBLIC_KEY_VERSION_BYTE, MaxPayloadLen) IN
         IF d.kind = "Err" THEN d
         ELSE Ok([type |-> "PublicKeyTypeEd25519", ed25519 |-> d.val.payload])

\* Option<T>::map(into_muxed_account_id).transpose()
source_account_transpose(source_account) ==
    IF ~source_account.some THEN Ok(None)
    ELSE LET c == into_muxed_account_id(source_account.val) IN
         IF c.kind = "Err" THEN c ELSE Ok(Some(c.val))

new_end_sponsoring_future_reserves(source_account) ==
    LET sa == source_account_transpose(source_account) IN
    IF sa.kind = "Err" THEN sa
    ELSE Ok([source_account |-> sa.val,
             body |-> [type |-> "EndSponsoringFutureReserves"]])

\* the mutant: the data name is taken as it is, whatever its length
new_manage_data_unbounded_name(source_account, data_name, data_value) ==
    LET sa == source_account_transpose(source_account) IN
    IF sa.kind = "Err" THEN sa
    ELSE LET dv == IF data_value.some THEN as_data_value(data_value.val) ELSE Ok("absent") IN
         IF dv.kind = "Err" THEN dv
         ELSE Ok([source_account |-> sa.val,
                  body |-> [type |-> "ManageData",
                            data_name |-> data_name,
                            data_value |-> IF data_value.some THEN Some(dv.val) ELSE None]])

new_manage_data(source_account, data_name, data_value) ==
    LET sa == source_account_transpose(source_account) IN
    IF sa.kind = "Err" THEN sa
    ELSE LET dv == IF data_value.some THEN as_data_value(data_value.val) ELSE Ok("absent") IN
         IF dv.kind = "Err" THEN dv
         ELSE LET dn == LimitedString_new(data_name, String64Limit) IN
              IF dn.kind = "Err" THEN dn
              ELSE Ok([source_account |-> sa.val,
                       body |-> [type |-> "ManageData",
                                 data_name |-> dn.val,
                                 data_value |-> IF data_value.some THEN Some(dv.val) ELSE None]])

\* weight as u32, of a u8: the zero extension, which keeps every value 0..255
u8_as_u32(weight) == weight % 256

map_u8_as_u32(opt) == IF opt.some THEN Some(u8_as_u32(opt.val)) ELSE None

\* the mutant: the low threshold is built from the medium threshold
new_set_options_swapped(a) ==
    LET hd == IF a.home_domain.some
              THEN LimitedString_new(a.home_domain.val, String32Limit) ELSE Ok("absent")
    IN
    IF hd.kind = "Err" THEN hd
    ELSE LET dest == IF a.inflation_dest.some
                     THEN into_account_id(a.inflation_dest.val) ELSE Ok("absent")
         IN
         IF dest.kind = "Err" THEN dest
         ELSE Ok([source_account |-> None,
                  body |-> [type |-> "SetOptions",
                            inflation_dest |-> IF a.inflation_dest.some THEN Some(dest.val) ELSE None,
                            clear_flags |-> a.clear_flags,
                            set_flags |-> a.set_flags,
                            master_weight |-> map_u8_as_u32(a.master_weight),
                            low_threshold |-> map_u8_as_u32(a.med_threshold),
                            med_threshold |-> map_u8_as_u32(a.med_threshold),
                            high_threshold |-> map_u8_as_u32(a.high_threshold),
                            home_domain |-> IF a.home_domain.some THEN Some(hd.val) ELSE None,
                            signer |-> a.signer]])

\* new_set_options, of the record a of its nine arguments; it has no
\* source_account parameter and the operation's source account is None
new_set_options(a) ==
    LET hd == IF a.home_domain.some
              THEN LimitedString_new(a.home_domain.val, String32Limit) ELSE Ok("absent")
    IN
    IF hd.kind = "Err" THEN hd
    ELSE LET dest == IF a.inflation_dest.some
                     THEN into_account_id(a.inflation_dest.val) ELSE Ok("absent")
         IN
         IF dest.kind = "Err" THEN dest
         ELSE Ok([source_account |-> None,
                  body |-> [type |-> "SetOptions",
                            inflation_dest |-> IF a.inflation_dest.some THEN Some(dest.val) ELSE None,
                            clear_flags |-> a.clear_flags,
                            set_flags |-> a.set_flags,
                            master_weight |-> map_u8_as_u32(a.master_weight),
                            low_threshold |-> map_u8_as_u32(a.low_threshold),
                            med_threshold |-> map_u8_as_u32(a.med_threshold),
                            high_threshold |-> map_u8_as_u32(a.high_threshold),
                            home_domain |-> IF a.home_domain.some THEN Some(hd.val) ELSE None,
                            signer |-> a.signer]])

\* ---- the arguments the constructors are called with ----
GoodAccountKey == encode_stellar_key(ED25519_PUBLIC_KEY_VERSION_BYTE, Rep(90, MaxPayloadLen))

\* GoodAccountKey with its second character changed: the checksum is wrong
BadAccountKey == [GoodAccountKey EXCEPT ![2] = IF @ = "A" THEN "B" ELSE "A"]

MuxedInputs ==
    { [repr |-> "MuxedAccount", muxed |-> [type |-> "KeyTypeMuxedEd25519", id |-> 7, ed25519 |-> Rep(1, MaxPayloadLen)]],
      [repr |-> "Encoding", encoding |-> GoodAccountKey],
      [repr |-> "Encoding", encoding |-> BadAccountKey] }

AccountInputs ==
    { [repr |-> "AccountId", account |-> [type |-> "PublicKeyTypeEd25519", ed25519 |-> Rep(1, MaxPayloadLen)]],
      [repr |-> "Encoding", encoding |-> GoodAccountKey],
      [repr |-> "Encoding", encoding |-> BadAccountKey] }

SetOptionsSources == {x \in MuxedInputs : x.repr = "MuxedAccount"}

Opt(S) == {None} \cup {Some(x) : x \in S}

\* lengths around a limit
Around(limit) == {0, limit - 1, limit, limit + 1}

DataNames == {Rep(110, n) : n \in Around(String64Limit) \cup {String64Limit + 2}}
DataValues == {Rep(118, n) : n \in Around(DataValueLimit)}
HomeDomains == {Rep(100, n) : n \in {String32Limit, String32Limit + 1}}
U8Samples == {0, 7, 255}
FlagSamples == {6}
Signers == {[key |-> [type |-> "SignerKeyTypeEd25519", ed25519 |-> Rep(2, MaxPayloadLen)], weight |-> 1]}

SetOptionsArgs ==
    [inflation_dest : Opt(AccountInputs), clear_flags : Opt(FlagSamples), set_flags : Opt({1}),
     master_weight : Opt({255}), low_threshold : Opt(U8Samples), med_threshold : Opt(U8Samples),
     high_threshold : Opt(U8Samples), home_domain : Opt(HomeDomains), signer : Opt(Signers)]

OpInit == opCall = NoCall /\ opRet = NoRet

OpOthers == UNCHANGED <<envelope, envRet, keyIn, keyRet, cbIn, cbRet, hz>>

NewManageData ==
    /\ opCall = NoCall
    /\ \E source_account \in Opt(MuxedInputs), data_name \in DataNames, data_value \in Opt(DataValues) :
        /\ opCall' = [fn |-> "new_manage_data", source_account |-> source_account,
                      data_name |-> data_name, data_value |-> data_value]
        /\ opRet' = new_manage_data(source_account, data_name, data_value)
        /\ OpOthers

NewEndSponsoringFutureReserves ==
    /\ opCall = NoCall
    /\ \E source_account \in Opt(MuxedInputs) :
        /\ opCall' = [fn |-> "new_end_sponsoring_future_reserves", source_account |-> source_account]
        /\ opRet' = new_end_sponsoring_future_reserves(source_account)
        /\ OpOthers

\* source_account is the override the caller has for the operation; the
\* signature of new_set_options has no parameter that takes it
NewSetOptions ==
    /\ opCall = NoCall
    /\ \E source_account \in Opt(MuxedInputs), a \in SetOptionsArgs :
        /\ opCall' = [fn |-> "new_set_options", source_account |-> source_account, args |-> a]
        /\ opRet' = new_set_options(a)
        /\ OpOthers

InitOps == OpInit /\ EnvIdle /\ KeyIdle /\ CbIdle /\ HzIdle
NextOps == NewManageData \/ NewEndSponsoringFutureReserves \/ NewSetOptions
SpecOps == InitOps /\ [][NextOps]_vars

\* the result of converting the caller's source-account override
ConvertedSource == source_account_transpose(opCall.source_account)

\* C6 as stated: new_manage_data fails with ExceedsMaximumLength whenever the
\* data name is longer than the limit; an operation it returns has a
\* ManageData body with the name within the limit and the value absent exactly
\* when the caller passed none.
C6_Claim ==
    opCall.fn = "new_manage_data" =>
        /\ Len(opCall.data_name) > 64 =>
              opRet.kind = "Err" /\ opRet.err.variant = "ExceedsMaximumLength"
        /\ opRet.kind = "Ok" =>
              /\ opRet.val.body.type = "ManageData"
              /\ opRet.val.body.data_name = opCall.data_name
              /\ Len(opRet.val.body.data_name) <= 64
              /\ opRet.val.body.data_value.some <=> opCall.data_value.some

\* C6, amended: new_manage_data fails whenever the data name is longer than
\* the limit, with ExceedsMaximumLength when the source-account override is
\* absent or converts (a failing conversion of the override comes first and
\* its error is the result); an operation it returns has a ManageData body
\* with the name within the limit and the value absent exactly when the
\* caller passed none.
C6_ManageDataName ==
    opCall.fn = "new_manage_data" =>
        /\ Len(opCall.data_name) > 64 =>
              /\ opRet.kind = "Err"
              /\ ConvertedSource.kind = "Ok" => opRet.err.variant = "ExceedsMaximumLength"
              /\ ConvertedSource.kind = "Err" => opRet = ConvertedSource
        /\ opRet.kind = "Ok" =>
              /\ opRet.val.body.type = "ManageData"
              /\ opRet.val.body.data_name = opCall.data_name
              /\ Len(opRet.val.body.data_name) <= 64
              /\ opRet.val.body.data_value.some <=> opCall.data_value.some

\* a name one byte too long has been refused, and a deletion has been built
C6_Witness ==
    /\ opCall.fn = "new_manage_data"
    /\ Len(opCall.data_name) = 65
    /\ opCall.source_account.some /\ ConvertedSource.kind = "Ok"
    /\ opRet = Err(ExceedsMaximumLength(65, 64))

\* C7 as stated: every constructor returns an operation whose source account
\* is the caller's override converted to a muxed account id when one is
\* supplied and absent only when none is, and fails when the conversion fails.
C7_Claim ==
    opCall.fn # "none" =>
        /\ opRet.kind = "Ok" =>
              /\ ConvertedSource.kind = "Ok"
              /\ opRet.val.source_account = ConvertedSource.val
        /\ ConvertedSource.kind = "Err" => opRet.kind = "Err"

\* the thresholds and the weight of the operation built are those given
SameWeights(body, a) ==
    \A f \in {"master_weight", "low_threshold", "med_threshold", "high_threshold"} :
        /\ body[f].some <=> a[f].some
        /\ a[f].some => body[f].val = a[f].val /\ body[f].val \in 0..255

\* C8: new_set_options succeeds whenever the home domain, if present, is
\* within its limit and the inflation destination, if present, converts to an
\* account id, whatever the other fields are; each present weight or
\* threshold is in the result with the same value, in 0..255, each absent one
\* is absent, and the flags and the signer are the ones given.
C8_SetOptionsIndependent ==
    opCall.fn = "new_set_options" =>
        LET a == opCall.args IN
        /\ (/\ a.home_domain.some => Len(a.home_domain.val) <= 32
            /\ a.inflation_dest.some => into_account_id(a.inflation_dest.val).kind = "Ok")
           => opRet.kind = "Ok"
        /\ opRet.kind = "Ok" =>
              /\ opRet.val.body.type = "SetOptions"
              /\ SameWeights(opRet.val.body, a)
              /\ opRet.val.body.clear_flags = a.clear_flags
              /\ opRet.val.body.set_flags = a.set_flags
              /\ opRet.val.body.signer = a.signer

\* an operation has been built with low_threshold > med_threshold >
\* high_threshold and no master weight
C8_Witness ==
    /\ opCall.fn = "new_set_options"
    /\ opRet.kind = "Ok"
    /\ opRet.val.body.low_threshold = Some(255)
    /\ opRet.val.body.med_threshold = Some(7)
    /\ opRet.val.body.high_threshold = Some(0)
    /\ ~opRet.val.body.master_weight.some
    /\ opRet.val.body.home_domain.some

(***************************************************************************)
(* ClaimableBalanceId: into_claimable_balance_id                           *)
(***************************************************************************)
\* the length of a ClaimableBalanceId's encoding: the type tag and the hash
TagLen == 4
HashLen == 32

HexDigits == << "0", "1", "2", "3", "4", "5", "6", "7", "8", "9", "a", "b", "c", "d", "e", "f" >>
HexDigitsUpper == << "0", "1", "2", "3", "4", "5", "6", "7", "8", "9", "A", "B", "C", "D", "E", "F" >>

IsHexDigit(c) == c \in Range(HexDigits) \cup Range(HexDigitsUpper)

HexValue(c) ==
    IF c \in Range(HexDigits)
    THEN (CHOOSE i \in DOMAIN HexDigits : HexDigits[i] = c) - 1
    ELSE (CHOOSE i \in DOMAIN HexDigitsUpper : HexDigitsUpper[i] = c) - 1

\* hex::decode
hex_decode(str) ==
    IF Len(str) % 2 = 1 \/ \E i \in DOMAIN str : ~IsHexDigit(str[i])
    THEN Err(InvalidHexEncoding)
    ELSE Ok([k \in 1..(Len(str) \div 2) |-> 16 * HexValue(str[2 * k - 1]) + HexValue(str[2 * k])])

hex_encode(bytes) ==
    [i \in 1..(2 * Len(bytes)) |->
        IF i % 2 = 1 THEN HexDigits[1 + (bytes[(i + 1) \div 2] \div 16)]
        ELSE HexDigits[1 + (bytes[i \div 2] % 16)]]

\* AsBinary::as_binary::<N>: the bytes of the value, which must be N
as_binary(x, n) ==
    LET binary == IF x.repr = "Binary" THEN Ok(x.bytes) ELSE hex_decode(x.hex) IN
    IF binary.kind = "Err" THEN binary
    ELSE IF Len(binary.val) # n THEN Err(InvalidBinaryLength(Len(binary.val), n))
    ELSE binary

\* ClaimableBalanceId::from_xdr: a big-endian i32 type tag, which must be that
\* of ClaimableBalanceIdTypeV0 (0), the hash, and nothing after it
ClaimableBalanceId_from_xdr(input) ==
    IF Len(input) < TagLen THEN Err([variant |-> "SuddenEnd"])
    ELSE IF SubSeq(input, 1, TagLen) # Rep(0, TagLen)
    THEN Err([variant |-> "InvalidEnumDiscriminator", at_position |-> 0])
    ELSE IF Len(input) < TagLen + HashLen THEN Err([variant |-> "SuddenEnd"])
    ELSE IF Len(input) > TagLen + HashLen
    THEN Err([variant |-> "TypeEndsTooEarly", remaining_no_of_bytes |-> Len(input) - TagLen - HashLen])
    ELSE Ok([type |-> "ClaimableBalanceIdTypeV0", v0 |-> SubSeq(input, TagLen + 1, TagLen + HashLen)])

\* the mutant: the decoding error is returned as it is
into_claimable_balance_id_raw_error(x) ==
    IF x.repr = "ClaimableBalanceId" THEN Ok(x.id)
    ELSE LET balance_id == as_binary(x, 4 + 32) IN
         IF balance_id.kind = "Err" THEN balance_id
         ELSE ClaimableBalanceId_from_xdr(balance_id.val)

\* into_claimable_balance_id, of a ClaimableBalanceId and of an AsBinary
into_claimable_balance_id(x) ==
    IF x.repr = "ClaimableBalanceId" THEN Ok(x.id)
    ELSE LET balance_id == as_binary(x, 4 + 32) IN
         IF balance_id.kind = "Err" THEN balance_id
         ELSE LET r == ClaimableBalanceId_from_xdr(balance_id.val) IN
              IF r.kind = "Err" THEN Err(InvalidBalanceId) ELSE r

\* ---- the values converted ----
TagSamples == {Rep(0, TagLen), [Rep(0, TagLen) EXCEPT ![TagLen] = 1],
               [Rep(0, TagLen) EXCEPT ![1] = 1], Rep(255, TagLen)}
HashSamples == {Rep(0, HashLen), Rep(171, HashLen)}

BalanceIdBytes ==
    LET whole == {t \o h : t \in TagSamples, h \in HashSamples} IN
    whole
    \cup {SubSeq(b, 1, Len(b) - 1) : b \in whole}
    \cup {Append(b, 0) : b \in whole}
    \cup {SubSeq(b, 1, TagLen) : b \in whole}
    \cup {<<>>}

BalanceIdInputs ==
    {[repr |-> "Binary", bytes |-> b] : b \in BalanceIdBytes}
    \cup {[repr |-> "Hex", hex |-> hex_encode(b)] : b \in BalanceIdBytes}
    \cup {[repr |-> "Hex", hex |-> Tail(hex_encode(b))] : b \in BalanceIdBytes \ {<<>>}}
    \cup {[repr |-> "Hex", hex |-> [hex_encode(b) EXCEPT ![1] = "g"]] : b \in BalanceIdBytes \ {<<>>}}
    \cup {[repr |-> "ClaimableBalanceId",
           id |-> [type |-> "ClaimableBalanceIdTypeV0", v0 |-> h]] : h \in HashSamples}

CbInit == cbIn \in BalanceIdInputs /\ cbRet = NoRet

IntoClaimableBalanceId ==
    /\ cbRet = NoRet
    /\ cbRet' = into_claimable_balance_id(cbIn)
    /\ UNCHANGED <<envelope, envRet, keyIn, keyRet, opCall, opRet, cbIn, hz>>

InitBalanceId == CbInit /\ EnvIdle /\ KeyIdle /\ OpIdle /\ HzIdle
NextBalanceId == IntoClaimableBalanceId
SpecBalanceId == InitBalanceId /\ [][NextBalanceId]_vars

\* the bytes an AsBinary value stands for, when it stands for any
BinaryOf(x) == IF x.repr = "Binary" THEN Ok(x.bytes) ELSE hex_decode(x.hex)

\* C9: converting binary input succeeds only for 36 bytes whose first four
\* are the tag of a valid type (0, big-endian), and gives the id of that type
\* with the 32 bytes after the tag; input of another length fails with
\* InvalidBinaryLength, 36 bytes that do not decode fail with
\* InvalidBalanceId, and a ClaimableBalanceId converts to itself.
C9_BalanceIdConversion ==
    cbRet # NoRet =>
        IF cbIn.repr = "ClaimableBalanceId" THEN cbRet = Ok(cbIn.id)
        ELSE LET b == BinaryOf(cbIn) IN
             b.kind = "Ok" =>
                /\ Len(b.val) # 36 => cbRet = Err(InvalidBinaryLength(Len(b.val), 36))
                /\ (Len(b.val) = 36 /\ \E i \in 1..4 : b.val[i] # 0) => cbRet = Err(InvalidBalanceId)
                /\ cbRet.kind = "Ok" <=> (Len(b.val) = 36 /\ \A i \in 1..4 : b.val[i] = 0)
                /\ cbRet.kind = "Ok" =>
                      /\ cbRet.val.type = "ClaimableBalanceIdTypeV0"
                      /\ cbRet.val.v0 = [i \in 1..32 |-> b.val[4 + i]]

\* 36 bytes with a tag that is no type's have been refused
C9_Witness ==
    /\ cbIn.repr = "Binary"
    /\ Len(cbIn.bytes) = 36
    /\ cbIn.bytes[4] = 1
    /\ cbRet = Err(InvalidBalanceId)

(***************************************************************************)
(* i64 values and their parsing.  A value is its sign and the decimal      *)
(* digits of its magnitude, most significant first and without leading     *)
(* zeros (<<>> is 0): all 64 bits are kept.                                *)
(***************************************************************************)
DigitChars == << "0", "1", "2", "3", "4", "5", "6", "7", "8", "9" >>

IsDigit(c) == c \in Range(DigitChars)
DigitValue(c) == (CHOOSE i \in DOMAIN DigitChars : DigitChars[i] = c) - 1
Chars(digits) == [i \in DOMAIN digits |-> DigitChars[digits[i] + 1]]

\* the digits of 2^63 - 1 (i64::MAX) and of 2^63 (the magnitude of i64::MIN)
I64MaxMag == <<9, 2, 2, 3, 3, 7, 2, 0, 3, 6, 8, 5, 4, 7, 7, 5, 8, 0, 7>>
I64MinMag == <<9, 2, 2, 3, 3, 7, 2, 0, 3, 6, 8, 5, 4, 7, 7, 5, 8, 0, 8>>

RECURSIVE StripZeros(_)
StripZeros(mag) == IF mag # <<>> /\ Head(mag) = 0 THEN StripZeros(Tail(mag)) ELSE mag

\* a <= b, of magnitudes without leading zeros
MagLE(a, b) ==
    \/ Len(a) < Len(b)
    \/ /\ Len(a) = Len(b)
       /\ \/ a = b
          \/ \E i \in DOMAIN a : a[i] < b[i] /\ \A j \in 1..(i - 1) : a[j] = b[j]

\* mag + 1
RECURSIVE MagInc(_)
MagInc(mag) ==
    IF mag = <<>> THEN <<1>>
    ELSE IF mag[Len(mag)] < 9 THEN [mag EXCEPT ![Len(mag)] = @ + 1]
    ELSE Append(MagInc(SubSeq(mag, 1, Len(mag) - 1)), 0)

\* mag - 1, of a magnitude that is not 0
RECURSIVE MagDec(_)
MagDec(mag) ==
    IF mag[Len(mag)] > 0 THEN StripZeros([mag EXCEPT ![Len(mag)] = @ - 1])
    ELSE StripZeros(Append(MagDec(SubSeq(mag, 1, Len(mag) - 1)), 9))

Int64(neg, mag) == [neg |-> neg /\ mag # <<>>, mag |-> mag]

InI64(v) == IF v.neg THEN MagLE(v.mag, I64MinMag) ELSE MagLE(v.mag, I64MaxMag)

I64Min == Int64(TRUE, I64MinMag)

\* v + 1, as an integer
Succ(v) == IF v.neg THEN Int64(TRUE, MagDec(v.mag)) ELSE Int64(FALSE, MagInc(v.mag))

\* str::parse::<i64>: an optional sign, then one or more decimal digits, of a
\* value in the range of i64
parse_i64(str) ==
    IF str = <<>> THEN Err("Empty")
    ELSE LET signed == Head(str) \in {"+", "-"}
             digits == IF signed THEN Tail(str) ELSE str
         IN
         IF digits = <<>> THEN Err("InvalidDigit")
         ELSE IF \E i \in DOMAIN digits : ~IsDigit(digits[i]) THEN Err("InvalidDigit")
         ELSE LET v == Int64(Head(str) = "-",
                             StripZeros([i \in DOMAIN digits |-> DigitValue(digits[i])]))
              IN IF InI64(v) THEN Ok(v)
                 ELSE Err(IF Head(str) = "-" THEN "NegOverflow" ELSE "PosOverflow")

\* sequence_number + 1 in i64: the sum when it is in range; past i64::MAX the
\* build decides: a panic with overflow checks, the wrapped value without them
i64_add_one(v) ==
    IF InI64(Succ(v)) THEN {Ok(Succ(v))}
    ELSE {[kind |-> "Panic", message |-> "attempt to add with overflow"], Ok(I64Min)}

(***************************************************************************)
(* Horizon: request and the fetch functions                                *)
(***************************************************************************)
\* FetchError
DeadlineReached == [variant |-> "DeadlineReached"]
IoError == [variant |-> "IoError"]
Invalid == [variant |-> "Invalid"]
Unknown == [variant |-> "Unknown"]
UnexpectedResponseStatus(status, body) ==
    [variant |-> "UnexpectedResponseStatus", status |-> status, body |-> body]
JsonParseError == [variant |-> "JsonParseError"]
InvalidSequenceNumber == [variant |-> "InvalidSequenceNumber"]
ParseIntError(e) == [variant |-> "ParseIntError", error |-> e]

\* impl From<Error> for FetchError
FetchError_from_Error(error) ==
    CASE error = "DeadlineReached" -> DeadlineReached
      [] error = "IoError" -> IoError
      [] error = "Unknown" -> Unknown

\* impl From<HttpError> for FetchError
FetchError_from_HttpError(error) ==
    CASE error = "DeadlineReached" -> DeadlineReached
      [] error = "IoError" -> IoError
      [] error = "Invalid" -> Invalid

\* ---- response bodies: the pieces of a JSON text, read one at a time ----
Tok(t) == [tok |-> t, chars |-> <<>>]
Str(chars) == [tok |-> "string", chars |-> chars]

AccountJson(sequence) == << Tok("{"), Tok("\"sequence\":"), Str(sequence), Tok("}") >>
FeeStatsJson(fee) == << Tok("{"), Tok("\"last_ledger_base_fee\":"), Str(fee), Tok("}") >>

\* serde_json::from_slice::<json_response_types::AccountResponse>
AccountResponse_from_slice(json) ==
    IF /\ Len(json) = 4
       /\ json[1] = Tok("{") /\ json[2] = Tok("\"sequence\":")
       /\ json[3].tok = "string" /\ json[4] = Tok("}")
    THEN Ok([sequence |-> json[3].chars])
    ELSE Err(JsonParseError)

\* serde_json::from_slice::<json_response_types::FeeStats>
FeeStats_from_slice(json) ==
    IF /\ Len(json) = 4
       /\ json[1] = Tok("{") /\ json[2] = Tok("\"last_ledger_base_fee\":")
       /\ json[3].tok = "string" /\ json[4] = Tok("}")
    THEN Ok([last_ledger_base_fee |-> json[3].chars])
    ELSE Err(JsonParseError)

\* TryFrom<json_response_types::FeeStats> for FeeStats: the fee is a number
FeeStats_try_into(response) ==
    LET fee == response.last_ledger_base_fee IN
    IF fee # <<>> /\ \A i \in DOMAIN fee : IsDigit(fee[i])
    THEN Ok([last_ledger_base_fee |-> StripZeros([i \in DOMAIN fee |-> DigitValue(fee[i])])])
    ELSE Err(ParseIntError(IF fee = <<>> THEN "Empty" ELSE "InvalidDigit"))

\* the mutant: only the error statuses are refused
request_status_check_errors_only(code, body) ==
    IF code >= 400 THEN Err(UnexpectedResponseStatus(code, body)) ELSE Ok(body)

\* request, once the response is there and its body is collected
request_status_check(code, body) ==
    IF code # 200 THEN Err(UnexpectedResponseStatus(code, body)) ELSE Ok(body)

\* fetch_account, of the result of its request
fetch_account(json) ==
    IF json.kind = "Err" THEN json ELSE AccountResponse_from_slice(json.val)

\* fetch_fee_stats, of the result of its request
fetch_fee_stats(json) ==
    IF json.kind = "Err" THEN json
    ELSE LET response == FeeStats_from_slice(json.val) IN
         IF response.kind = "Err" THEN response ELSE FeeStats_try_into(response.val)

\* fetch_next_sequence_number, of the result of its request: the results the
\* builds can give
fetch_next_sequence_number(json) ==
    LET account_response == fetch_account(json) IN
    IF account_response.kind = "Err" THEN {account_response}
    ELSE LET sequence_number == parse_i64(account_response.val.sequence) IN
         IF sequence_number.kind = "Err" THEN {Err(InvalidSequenceNumber)}
         ELSE i64_add_one(sequence_number.val)

\* the results of the function fn, of the result of its request
FetchResults(fn, json) ==
    CASE fn = "request" -> {json}
      [] fn = "fetch_fee_stats" -> {fetch_fee_stats(json)}
      [] fn = "fetch_account" -> {fetch_account(json)}
      [] fn = "fetch_next_sequence_number" -> fetch_next_sequence_number(json)

\* ---- the course of a call ----
\* the clock stops at MaxTime; a timeout is 1..MaxTimeout ticks
MaxTime == 3
MaxTimeout == 2

FetchFunctions == {"request", "fetch_fee_stats", "fetch_account", "fetch_next_sequence_number"}

\* the status codes of the responses
StatusCodes == {200, 201, 404, 500}

\* the sequence numbers of the accounts the server answers with
SequenceStrings ==
    { Chars(<<0>>), Chars(<<4, 1>>), <<"-", "1">>, <<"+", "7">>, <<"0", "0", "7">>,
      <<>>, <<"-">>, <<"1", "2", "a">>,
      Chars(I64MaxMag), Chars(I64MinMag), <<"-">> \o Chars(I64MinMag),
      <<"-">> \o Chars(MagInc(I64MinMag)) }

FeeStrings == {<<"1", "0", "0">>, <<"1", "e", "2">>}

AccountDocs == {AccountJson(q) : q \in SequenceStrings}
FeeStatsDocs == {FeeStatsJson(f) : f \in FeeStrings}

\* the bodies of the responses: JSON texts of the two shapes, a text that is
\* no JSON, and an empty body
ResponseBodies == AccountDocs \cup FeeStatsDocs \cup {<< Tok("<html>") >>, <<>>}

\* hz while a call is under way:
\*   pc        "send", "wait" (for the response), "body" (reading it), "done"
\*   fn        the function called, timeout its timeout_milliseconds
\*   now       the clock, deadline the value of timeout at line 102
\*   code, body   the response, once it is there (code 0: not yet)
\*   received  the part of the body read so far
\*   failure   the failure of the network that ended the request ("none": none)
\*   json      the result of request, ret the result of fn, at the time retAt
HzInit == hz = HzIdleState

HzOthers == UNCHANGED <<envelope, envRet, keyIn, keyRet, opCall, opRet, cbIn, cbRet>>

\* request returns r, after the failure f of the network if any: fn goes on
\* with r and returns
Return(r, f) ==
    \E out \in FetchResults(hz.fn, r) :
        hz' = [hz EXCEPT !.pc = "done", !.failure = f, !.json = r, !.ret = out,
                         !.retAt = hz.now]

\* a call of one of the functions; request computes the deadline
Call ==
    /\ hz.pc = "idle"
    /\ \E fn \in FetchFunctions, timeout_milliseconds \in 1..MaxTimeout :
          hz' = [pc |-> "send", fn |-> fn, timeout |-> timeout_milliseconds,
                 now |-> 0, deadline |-> 0 + timeout_milliseconds,
                 code |-> 0, body |-> <<>>, received |-> <<>>, failure |-> "none",
                 json |-> NoRet, ret |-> NoRet, retAt |-> 0]
    /\ HzOthers

\* time passes; send and try_wait take the deadline and return when it is reached
Tick ==
    /\ hz.pc \in {"send", "wait", "body"}
    /\ hz.now < MaxTime
    /\ hz.pc \in {"send", "wait"} => hz.now < hz.deadline
    /\ hz' = [hz EXCEPT !.now = @ + 1]
    /\ HzOthers

\* send() succeeds: the request is pending
Send ==
    /\ hz.pc = "send"
    /\ hz' = [hz EXCEPT !.pc = "wait"]
    /\ HzOthers

\* send() fails with an HttpError
SendFails ==
    /\ hz.pc = "send"
    /\ \E error \in {"DeadlineReached", "IoError", "Invalid"} :
          /\ error = "DeadlineReached" => hz.now >= hz.deadline
          /\ Return(Err(FetchError_from_HttpError(error)), error)
    /\ HzOthers

\* try_wait gives the request back: the deadline was reached
TryWaitDeadline ==
    /\ hz.pc = "wait"
    /\ hz.now >= hz.deadline
    /\ Return(Err(DeadlineReached), "DeadlineReached")
    /\ HzOthers

\* try_wait gives an Error
TryWaitFails ==
    /\ hz.pc = "wait"
    /\ \E error \in {"DeadlineReached", "IoError", "Unknown"} :
          /\ error = "DeadlineReached" => hz.now >= hz.deadline
          /\ Return(Err(FetchError_from_Error(error)), error)
    /\ HzOthers

\* try_wait gives the response: its status and headers are there
TryWaitResponse ==
    /\ hz.pc = "wait"
    /\ \E code \in StatusCodes, body \in ResponseBodies :
          hz' = [hz EXCEPT !.pc = "body", !.code = code, !.body = body]
    /\ HzOthers

\* response.body() reads the next piece of the body; it has no deadline
ReadBody ==
    /\ hz.pc = "body"
    /\ Len(hz.received) < Len(hz.body)
    /\ hz' = [hz EXCEPT !.received = Append(@, hz.body[Len(@) + 1])]
    /\ HzOthers

\* the body ends: collect() gives what was read and request returns
BodyEnds ==
    /\ hz.pc = "body"
    /\ hz.received = hz.body
    /\ Return(request_status_check(hz.code, hz.received), "none")
    /\ HzOthers

\* reading the body fails: the iterator ends as at the end of the body, and
\* collect() gives what was read until then
BodyReadFails ==
    /\ hz.pc = "body"
    /\ Len(hz.received) < Len(hz.body)
    /\ Return(request_status_check(hz.code, hz.received), "IoError")
    /\ HzOthers

InitHorizon == HzInit /\ EnvIdle /\ KeyIdle /\ OpIdle /\ CbIdle
NextHorizon ==
    \/ Call \/ Tick \/ Send \/ SendFails \/ TryWaitDeadline \/ TryWaitFails
    \/ TryWaitResponse \/ ReadBody \/ BodyEnds \/ BodyReadFails
SpecHorizon == InitHorizon /\ [][NextHorizon]_vars

Done == hz.pc = "done"

\* the request was answered: its status and its body, as far as read, are there
Answered == Done /\ hz.code # 0

\* C3 as stated: request does not return later than its deadline, and
\* returns Ok only with a body that was received whole.
C3_Claim ==
    Done /\ hz.fn = "request" =>
        /\ hz.retAt <= hz.deadline
        /\ hz.ret.kind = "Ok" => hz.ret.val = hz.body

ValidJson(fn) == IF fn = "fetch_fee_stats" THEN FeeStatsDocs ELSE AccountDocs

\* C5 as stated: in fetch_fee_stats and fetch_account a status-200 response
\* whose body is no JSON text of the expected shape gives JsonParseError, and
\* a failure of the network (deadline reached, I/O error, invalid request,
\* unknown) never gives JsonParseError.
C5_Claim ==
    Done /\ hz.fn \in {"fetch_fee_stats", "fetch_account"} =>
        /\ (hz.failure = "none" /\ hz.code = 200 /\ hz.body \notin ValidJson(hz.fn)) =>
              hz.ret = Err(JsonParseError)
        /\ hz.failure # "none" => hz.ret # Err(JsonParseError)

\* C10 as stated: fetch_next_sequence_number returns n + 1 for every account
\* whose sequence parses as the i64 n, InvalidSequenceNumber when it does not
\* parse, and the error of fetch_account unchanged.
C10_Claim ==
    Done /\ hz.fn = "fetch_next_sequence_number" =>
        LET account == fetch_account(hz.json) IN
        IF account.kind = "Err" THEN hz.ret = account
        ELSE LET n == parse_i64(account.val.sequence) IN
             IF n.kind = "Err" THEN hz.ret = Err(InvalidSequenceNumber)
             ELSE hz.ret = Ok(Succ(n.val))

====
